---- MODULE Spec2Model ----
(***************************************************************************)
(* Rotated-log range query of src/python/cpuTestUtilities.py               *)
(* (ParseRotatedLog, lines 152-304): a base log file, its numbered and     *)
(* optionally gzipped predecessors, and one query over them.               *)
(* A line is its first field (the cursor token awk compares), what the      *)
(* parse step makes of it and, where a query passes greps or a keyword,    *)
(* its text; the files hold no blank lines (line 267).  The stages         *)
(* modelled are the source, awk, the greps, the keyword grep, tail/head,   *)
(* the parse loop and the walk over the rotation indices.                  *)
(***************************************************************************)
EXTENDS Integers, Sequences, FiniteSets, TLC

\* ------------------------------------------------------------------ bounds
MaxIndex == 1        \* highest rotation index of the general log sets
MaxTok == 2          \* cursor tokens are 1..MaxTok, ordered as awk orders $1
MaxLines == 2        \* lines per file
MaxDropped == 1      \* lines of a log set that yield no entry
MaxTotal == MaxLines + 1     \* lines in the whole log set
MaxLimit == MaxLines         \* largest limit a query passes
\* maxrotate=9, the default of ParseRotatedLog
DefaultMaxRotate == 9

\* ------------------------------------------------------- optional values
\* Python's None; a value that is present is the one-element tuple <<v>>.
None == <<>>
Some(v) == <<v>>

Tokens == 1..MaxTok
\* the cursor the general queries pass, and the first field of dropped lines
MidTok == MaxTok - 1

\* "ok": token, separator, payload the caller's parser accepts
\* "nosep": no ',' in the line, $1 is the whole line
\* "raise": the caller's parser raises on the payload
\* "none": the caller's parser returns None for the payload
Kinds == {"ok", "nosep", "raise", "none"}
OkLines == [tok : Tokens, kind : {"ok"}]
DroppedLines == [tok : {MidTok}, kind : Kinds \ {"ok"}]
NoSepLines == [tok : {MidTok}, kind : {"nosep"}]
RecentLines == [tok : {MidTok, MaxTok}, kind : {"ok"}]
LatestLines == [tok : {MaxTok}, kind : {"ok"}]

\* ------------------------------------------------------------ file system
\* A file name is <<rotation index, suffix>>; logfile itself is <<0, "">>.
Plain(i) == <<i, "">>
Gz(i) == <<i, ".gz">>

\* what gzip writes and what `gzip -d` gives back
Gzip(lines) == <<"gzip", lines>>
Gunzip(bytes) == bytes[2]

\* fs: the log files on disk; pc: "idle" before the call, "done" after it;
\* q: the arguments of the call; result: the list it returned; calls: one
\* record per invocation of ParseRotatedLog that the call made, in order;
\* walk: for each caller that runs the query one invocation at a time, the
\* locals of its invocations; sync: the start/stop handshake between the
\* PLC script, the motion controller's server and the vision controller's
\* server (SyncTestWithControllerClient, SyncTestWithControllerServer)
VARIABLES fs, pc, q, result, calls, walk, sync
vars == <<fs, pc, q, result, calls, walk, sync>>

\* os.path.isfile(filename)
IsFile(files, name) == name \in DOMAIN files /\ files[name] # None

\* line 218: open(filename, 'r') succeeds; a file the process may not read
\* is its content followed by "denied"
Readable(files, name) == Len(files[name]) = 1

\* a variant that never looks for the compressed file
FileNamePlainOnly(files, rotate) == Plain(rotate)

\* a variant that looks for the compressed file first
FileNameCompressedFirst(files, rotate) ==
    IF rotate > 0
    THEN IF IsFile(files, Gz(rotate)) THEN Gz(rotate) ELSE Plain(rotate)
    ELSE Plain(0)

\* lines 185-191: the file name for a rotation index
FileName(files, rotate) ==
    IF rotate > 0
    THEN IF ~IsFile(files, Plain(rotate)) THEN Gz(rotate) ELSE Plain(rotate)
    ELSE Plain(0)

\* lines 218-222: cat for a plain file, gzip -d for a name ending in .gz
ReadFile(files, name) ==
    IF name[2] = ".gz" THEN Gunzip(files[name][1]) ELSE files[name][1]

\* a variant of the cursor condition whose inclusive backward bound is strict
CursorCondStrict(tok, qq) ==
    IF ~qq.forward
    THEN tok < qq.cursor[1]
    ELSE IF qq.includecursor THEN tok >= qq.cursor[1] ELSE tok > qq.cursor[1]

\* lines 231-236: the awk condition on the cursor
CursorCond(tok, qq) ==
    IF ~qq.forward
    THEN IF qq.includecursor THEN tok <= qq.cursor[1] ELSE tok < qq.cursor[1]
    ELSE IF qq.includecursor THEN tok >= qq.cursor[1] ELSE tok > qq.cursor[1]

\* a variant of the endcursor condition whose inclusive forward bound is strict
EndCursorCondStrict(tok, qq) ==
    IF ~qq.forward
    THEN IF qq.includeendcursor THEN tok >= qq.endcursor[1] ELSE tok > qq.endcursor[1]
    ELSE tok < qq.endcursor[1]

\* lines 237-243: the awk condition on the endcursor
EndCursorCond(tok, qq) ==
    IF ~qq.forward
    THEN IF qq.includeendcursor THEN tok >= qq.endcursor[1] ELSE tok > qq.endcursor[1]
    ELSE IF qq.includeendcursor THEN tok <= qq.endcursor[1] ELSE tok < qq.endcursor[1]

\* a variant of the awk stage that leaves the endcursor condition out
AwkCursorOnly(lines, qq) ==
    IF qq.cursor # None
    THEN SelectSeq(lines, LAMBDA l : CursorCond(l.tok, qq))
    ELSE lines

\* lines 226-245: the awk stage exists only when cursor is truthy, and the
\* endcursor condition is added only inside it
Awk(lines, qq) ==
    IF qq.cursor # None
    THEN SelectSeq(lines, LAMBDA l :
             CursorCond(l.tok, qq)
             /\ (qq.endcursor # None => EndCursorCond(l.tok, qq)))
    ELSE lines

\* ------------------------------------------------------------------ grep
\* A text (a line's, a pattern's, a keyword's, a command-line argument's)
\* is a tuple of characters.
LowerChar(c) == IF c = "E" THEN "e" ELSE IF c = "R" THEN "r" ELSE c
LowerText(t) == [i \in 1..Len(t) |-> LowerChar(t[i])]

\* text holds pattern as a substring
Contains(text, pattern) ==
    \E i \in 1..(Len(text) - Len(pattern) + 1) :
        SubSeq(text, i, i + Len(pattern) - 1) = pattern

\* grep reads an argument that starts with '-' as options
IsOption(arg) == Len(arg) >= 1 /\ arg[1] = "-"

HasFlag(args, c) ==
    \E k \in 1..Len(args) :
        IsOption(args[k]) /\ \E j \in 2..Len(args[k]) : args[k][j] = c

\* grep args < lines: the first argument that is not an option is the
\* pattern (a plain string here); -i ignores case, -v inverts the match;
\* without a pattern grep prints its usage to stderr, writes no line and
\* exits with status 2
Grep(args, lines) ==
    LET patterns == SelectSeq(args, LAMBDA a : ~IsOption(a)) IN
    IF patterns = <<>> THEN <<>>
    ELSE SelectSeq(lines, LAMBDA l :
             (IF HasFlag(args, "i")
              THEN Contains(LowerText(l.text), LowerText(patterns[1]))
              ELSE Contains(l.text, patterns[1]))
             # HasFlag(args, "v"))

\* lines 247-248: one grep per element of greps, each reading the output
\* of the process before it
RECURSIVE GrepChain(_, _)
GrepChain(lines, greps) ==
    IF greps = <<>> THEN lines
    ELSE GrepChain(Grep(greps[1], lines), Tail(greps))

\* lines 250-251: grep -Fi keyword, when keyword is truthy
KeywordGrep(lines, keyword) ==
    IF keyword # None /\ keyword # Some(<<>>)
    THEN Grep(<<<<"-", "F", "i">>, keyword[1]>>, lines)
    ELSE lines

\* tail -n n
TailN(lines, n) ==
    IF n >= Len(lines) THEN lines ELSE SubSeq(lines, Len(lines) - n + 1, Len(lines))

\* head -n n
HeadN(lines, n) ==
    IF n >= Len(lines) THEN lines ELSE SubSeq(lines, 1, n)

\* a variant of the truncation stage with tail and head exchanged
TruncateSwapped(lines, limit, qq) ==
    IF limit # None
    THEN IF ~qq.forward THEN HeadN(lines, limit[1]) ELSE TailN(lines, limit[1])
    ELSE lines

\* lines 253-257: the truncation stage
Truncate(lines, limit, qq) ==
    IF limit # None
    THEN IF ~qq.forward THEN TailN(lines, limit[1]) ELSE HeadN(lines, limit[1])
    ELSE lines

\* a variant of the pipeline that truncates before the greps
PipelineTruncateFirst(files, name, limit, qq) ==
    KeywordGrep(GrepChain(Truncate(Awk(ReadFile(files, name), qq), limit, qq),
                          qq.greps), qq.keyword)

\* lines 215-257: the pipeline's output for one file
Pipeline(files, name, limit, qq) ==
    Truncate(KeywordGrep(GrepChain(Awk(ReadFile(files, name), qq), qq.greps),
                         qq.keyword),
             limit, qq)

\* a variant of the line parser that makes an entry of a line without separator
ParseLineAcceptsNoSep(line) ==
    IF line.kind = "raise" THEN None
    ELSE IF line.kind = "none" THEN None
    ELSE <<line.tok, "payload">>

\* lines 270-275: split on the first ',' and call logparserfn; an exception
\* (IndexError for a missing separator, or one the parser raises) is caught
\* and leaves entry = None
ParseLine(line) ==
    IF line.kind = "nosep" THEN None
    ELSE IF line.kind = "raise" THEN None
    ELSE IF line.kind = "none" THEN None
    ELSE <<line.tok, "payload">>

\* a variant of the loop that never counts an entry against the limit
RECURSIVE ParseLoopUncounted(_, _, _, _)
ParseLoopUncounted(lines, i, entries, limit) ==
    IF i = 0 THEN [entries |-> entries, limit |-> limit]
    ELSE LET entry == ParseLine(lines[i]) IN
         IF entry # None
         THEN ParseLoopUncounted(lines, i - 1, Append(entries, entry), limit)
         ELSE ParseLoopUncounted(lines, i - 1, entries, limit)

\* a variant of the loop that counts every line against the limit, also
\* one that yields no entry
RECURSIVE ParseLoopCountsAll(_, _, _, _)
ParseLoopCountsAll(lines, i, entries, limit) ==
    IF i = 0 THEN [entries |-> entries, limit |-> limit]
    ELSE LET entry == ParseLine(lines[i])
             taken == IF entry # None THEN Append(entries, entry) ELSE entries
         IN IF limit # None
            THEN IF limit[1] - 1 <= 0
                 THEN [entries |-> taken, limit |-> Some(limit[1] - 1)]
                 ELSE ParseLoopCountsAll(lines, i - 1, taken, Some(limit[1] - 1))
            ELSE ParseLoopCountsAll(lines, i - 1, taken, limit)

\* lines 264-282: the loop over reversed(lines); i is the next line to take
RECURSIVE ParseLoop(_, _, _, _)
ParseLoop(lines, i, entries, limit) ==
    IF i = 0 THEN [entries |-> entries, limit |-> limit]
    ELSE LET entry == ParseLine(lines[i]) IN
         IF entry # None
         THEN IF limit # None
              THEN IF limit[1] - 1 <= 0
                   THEN [entries |-> Append(entries, entry), limit |-> Some(limit[1] - 1)]
                   ELSE ParseLoop(lines, i - 1, Append(entries, entry), Some(limit[1] - 1))
              ELSE ParseLoop(lines, i - 1, Append(entries, entry), limit)
         ELSE ParseLoop(lines, i - 1, entries, limit)

\* variants of the merge that ignore the direction
MergeOlderFirst(entries, rotatedlog, qq) == rotatedlog \o entries

MergeNewerFirst(entries, rotatedlog, qq) == entries \o rotatedlog

\* lines 300-303: merging the recursive call's entries with this file's
Merge(entries, rotatedlog, qq) ==
    IF qq.forward THEN rotatedlog \o entries ELSE entries \o rotatedlog

\* lines 171-177: the index a call without rotate starts from
StartRotate(qq) == IF qq.forward THEN qq.maxrotate ELSE 0

\* a variant of the range check without the lower end
OutOfRangeAbove(rotate, qq) == rotate > qq.maxrotate

\* line 178
OutOfRange(rotate, qq) == rotate < 0 \/ rotate > qq.maxrotate

\* a variant of the walk that passes over a missing rotated file
StopAtMissingNever(rotate, qq) == FALSE

\* a variant in which a missing rotated file ends the walk in both directions
StopAtMissingBothWays(rotate, qq) == rotate > 0

\* a variant in which a missing live file ends a backward walk too
StopAtMissingLive(rotate, qq) == ~qq.forward

\* line 197: going back in time, a missing rotated file ends the walk
StopAtMissing(rotate, qq) == ~qq.forward /\ rotate > 0

\* a variant of the step that goes to the next higher index in both directions
NextRotateUp(rotate, qq) == rotate + 1

\* lines 202, 288
NextRotate(rotate, qq) == IF qq.forward THEN rotate - 1 ELSE rotate + 1

\* a variant that goes on to the next index whatever the limit
ContinueAlways(limit) == TRUE

\* line 285
Continue(limit) == limit = None \/ limit[1] > 0

\* lines 263-282 for one file: the entries and the limit left
Collect(files, name, limit, qq) ==
    ParseLoop(Pipeline(files, name, limit, qq),
              Len(Pipeline(files, name, limit, qq)), <<>>, limit)

\* what one invocation did: the index it was called with, the limit it was
\* called with, how it ended ("range": line 179, "missing": lines 194-213,
\* "collected": lines 215-304) and the entries it took from its own file
Call(rotate, limit, step, entries) ==
    [rotate |-> rotate, limit |-> limit, step |-> step, entries |-> entries]

\* ParseRotatedLog(logfile, rotate, ..., limit, ...), lines 152-304: the
\* returned list, with the invocations made (this one first)
RECURSIVE ParseRotatedLog(_, _, _, _)
ParseRotatedLog(files, rotate0, limit, qq) ==
    LET rotate == IF rotate0 = None THEN StartRotate(qq) ELSE rotate0[1] IN
    IF OutOfRange(rotate, qq)
    THEN [entries |-> <<>>, calls |-> <<Call(rotate, limit, "range", <<>>)>>]
    ELSE LET filename == FileName(files, rotate) IN
         IF ~IsFile(files, filename)
         THEN IF StopAtMissing(rotate, qq)
              THEN [entries |-> <<>>, calls |-> <<Call(rotate, limit, "missing", <<>>)>>]
              ELSE LET r == ParseRotatedLog(files, Some(NextRotate(rotate, qq)), limit, qq)
                   IN [entries |-> r.entries,
                       calls |-> <<Call(rotate, limit, "missing", <<>>)>> \o r.calls]
         ELSE LET c == Collect(files, filename, limit, qq) IN
              IF Continue(c.limit)
              THEN LET r == ParseRotatedLog(files, Some(NextRotate(rotate, qq)), c.limit, qq)
                   IN [entries |-> Merge(c.entries, r.entries, qq),
                       calls |-> <<Call(rotate, limit, "collected", c.entries)>> \o r.calls]
              ELSE [entries |-> c.entries,
                    calls |-> <<Call(rotate, limit, "collected", c.entries)>>]

\* ------------------------------------------------------------------ inputs
\* sequences over S of length at most n
RECURSIVE SeqsUpTo(_, _)
SeqsUpTo(S, n) ==
    IF n = 0 THEN {<<>>}
    ELSE LET shorter == SeqsUpTo(S, n - 1)
         IN shorter \cup {Append(s, x) : s \in {t \in shorter : Len(t) = n - 1}, x \in S}

\* rotated files from index 2 on are stored compressed (logrotate's
\* delaycompress); logfile and logfile.1 are plain
Stored(i, lines) ==
    IF i >= 2
    THEN (Plain(i) :> None) @@ (Gz(i) :> Some(Gzip(lines)))
    ELSE IF i = 0 THEN (Plain(i) :> Some(lines))
    ELSE (Plain(i) :> Some(lines)) @@ (Gz(i) :> None)

Absent(i) ==
    IF i = 0 THEN (Plain(i) :> None) ELSE (Plain(i) :> None) @@ (Gz(i) :> None)

\* the line a file holds for a file system and an index, <<>> when missing
LinesAt(files, i) ==
    IF IsFile(files, FileName(files, i)) THEN ReadFile(files, FileName(files, i)) ELSE <<>>

Dropped(lines) == Len(SelectSeq(lines, LAMBDA l : l.kind # "ok"))

\* the contents a file of index i may have: n lines, d of them lines that
\* yield no entry
Contents(LineSet, n, d) == {t \in SeqsUpTo(LineSet, n) : Len(t) = n /\ Dropped(t) = d}

\* the log sets over indices 0..i that hold at most budget lines, at most
\* bad of them lines that yield no entry
RECURSIVE LogSetsUpTo(_, _, _, _)
LogSetsUpTo(LineSet, i, budget, bad) ==
    LET Here(n, d) == {Stored(i, t) : t \in Contents(LineSet, n, d)}
        Sizes == (0..(IF budget < MaxLines THEN budget ELSE MaxLines)) \X (0..bad)
    IN IF i = 0
       THEN {Absent(i)} \cup UNION {Here(s[1], s[2]) : s \in Sizes}
       ELSE {Absent(i) @@ g : g \in LogSetsUpTo(LineSet, i - 1, budget, bad)}
            \cup UNION { {f @@ g : f \in Here(s[1], s[2]),
                                   g \in LogSetsUpTo(LineSet, i - 1, budget - s[1], bad - s[2])}
                         : s \in Sizes }

Option(S) == {None} \cup {Some(x) : x \in S}

\* the calls ParseRotatedLog(logfile, cursor=..., ..., maxrotate=...)
\* without greps and keyword; a flag is read only when its cursor is given
\* (lines 233-243), so it is left at its default otherwise
QueriesOver(Cursors, EndCursors, Limits, MaxRotates) ==
    {qq \in [forward : BOOLEAN,
             cursor : Cursors, includecursor : BOOLEAN,
             endcursor : EndCursors, includeendcursor : BOOLEAN,
             greps : {<<>>}, keyword : {None},
             limit : Limits,
             maxrotate : MaxRotates] :
        /\ qq.cursor = None => ~qq.includecursor
        /\ qq.endcursor = None => ~qq.includeendcursor}

NoQuery == [forward |-> FALSE, cursor |-> None, includecursor |-> FALSE,
            endcursor |-> None, includeendcursor |-> FALSE,
            greps |-> <<>>, keyword |-> None, limit |-> None,
            maxrotate |-> DefaultMaxRotate]

\* ------------------------------------------------------------ the machine
\* the threads of the process that call ParseRotatedLog
Callers == {"a", "b"}

\* a caller that has not called: no frame, nothing returned, nothing open
NoWalk == [pc |-> "idle", q |-> NoQuery, stack |-> <<>>, result |-> <<>>,
           trace |-> <<>>, open |-> {}, prev |-> None]

\* the processes that run a SyncTestWithControllerServer; the motion
\* controller's is given a client for the vision controller's
\* (motionControllerDataCollection.py:163-164), the vision controller's none
\* (visionControllerDataCollection.py:140)
Servers == {"motion", "vision"}
syncControllerClient(s) == IF s = "motion" THEN Some("vision") ELSE None

\* the processes that hold a SyncTestWithControllerClient, named by the id
\* they send (str(os.getpid())): the PLC script, whose client addresses the
\* motion controller's server (plcOrderCycles.py:97), and the motion
\* controller's data collection, whose client addresses the vision
\* controller's
Clients == {"plc", "motion"}
endpoint(c) == IF c = "plc" THEN "motion" ELSE "vision"

\* a client that is in no call; n counts its calls, each on a socket of its own
NoCall == [pc |-> "idle", command |-> "", n |-> 0, returned |-> FALSE]

\* the PLC memory as far as the PLC script uses it: the order not
\* requested, isRunningOrderCycle not written yet
NoOrder == [startOrderCycle |-> FALSE, isRunningOrderCycle |-> None]

\* before any request: every run flag False (line 69), every lock free
\* (line 67), every _isOk True (line 68), every server thread polling and
\* every server's main thread waiting for its flag, nothing sent; the PLC
\* script is before its Start call, its PLC server started
\* (plcOrderCycles.py:54); log is the history of the handshake's events
NoSync ==
    [shouldRun |-> [s \in Servers |-> FALSE],
     lock |-> [s \in Servers |-> "free"],
     isOk |-> [s \in Servers |-> TRUE],
     thread |-> [s \in Servers |-> [pc |-> "poll", message |-> None]],
     proc |-> [s \in Servers |-> "waiting"],
     requests |-> [s \in Servers |-> <<>>],
     reply |-> [c \in Clients |-> None],
     call |-> [c \in Clients |-> NoCall],
     main |-> "sync",
     order |-> NoOrder,
     server |-> "started",
     log |-> <<>>]

InitOver(LogSets) ==
    /\ sync = NoSync
    /\ fs \in LogSets
    /\ pc = "idle"
    /\ q = NoQuery
    /\ result = <<>>
    /\ calls = <<>>
    /\ walk = [p \in Callers |-> NoWalk]

\* a caller runs ParseRotatedLog(logfile, ...) to completion
QueryOver(Queries) ==
    /\ pc = "idle"
    /\ \E qq \in Queries :
          LET r == ParseRotatedLog(fs, None, qq.limit, qq)
          IN /\ result' = r.entries
             /\ calls' = r.calls
             /\ q' = qq
    /\ pc' = "done"
    /\ UNCHANGED <<fs, walk, sync>>

\* General log sets: any token order, lines without separator, a missing
\* live or rotated file; the queries vary direction, cursor and limit.
Query ==
    QueryOver(QueriesOver(Option({MidTok}), {None}, Option(0..MaxLimit),
                          {DefaultMaxRotate}))

Init == InitOver(LogSetsUpTo(OkLines \cup NoSepLines, MaxIndex, MaxTotal, MaxDropped))

Next == Query

Spec == Init /\ [][Next]_vars

\* Window queries: every combination of cursor, endcursor and flags.
WindowQuery ==
    QueryOver(QueriesOver(Option(Tokens), Option(Tokens), {None}, {DefaultMaxRotate}))

InitWindow ==
    InitOver(LogSetsUpTo(OkLines \cup NoSepLines, MaxIndex, MaxLines, MaxDropped))

NextWindow == WindowQuery

SpecWindow == InitWindow /\ [][NextWindow]_vars

\* Gaps: well-formed lines over two more rotation indices, and a maxrotate
\* below the highest of them.
GapQuery ==
    QueryOver(QueriesOver({None}, {None}, Option(0..MaxLimit),
                          {MaxIndex + 1, DefaultMaxRotate}))

InitGap == InitOver(LogSetsUpTo(RecentLines, MaxIndex + 2, MaxTotal, 0))

NextGap == GapQuery

SpecGap == InitGap /\ [][NextGap]_vars

\* Parsing: every way a line can yield no entry (no separator, the parser
\* raises, the parser returns None), queried without limit.
ParseQuery ==
    QueryOver(QueriesOver(Option({MidTok}), {None}, {None}, {DefaultMaxRotate}))

InitParse == InitOver(LogSetsUpTo(OkLines \cup DroppedLines, MaxIndex, MaxTotal, MaxDropped))

NextParse == ParseQuery

SpecParse == InitParse /\ [][NextParse]_vars

\* Two windows: one more cursor token than the general log sets have, so
\* that a token can lie between two windows; backward queries with both
\* bounds given and inclusive.
WideTokens == 1..(MaxTok + 1)
WideLines == [tok : WideTokens, kind : {"ok"}]

SpanQuery ==
    QueryOver({qq \in QueriesOver({Some(t) : t \in WideTokens}, {Some(t) : t \in WideTokens},
                                  {None}, {DefaultMaxRotate}) :
                  ~qq.forward /\ qq.includecursor /\ qq.includeendcursor})

InitSpan == InitOver(LogSetsUpTo(WideLines, MaxIndex, MaxTotal, 0))

NextSpan == SpanQuery

SpecSpan == InitSpan /\ [][NextSpan]_vars

\* Pattern filters: lines that differ in their text, queried with every
\* list of greps that uses each argument list at most once and with a
\* keyword that is absent, mixed-case, or a text starting with '-'.
Texts == {<<"e", "r">>, <<"E", "R">>, <<"-", "1">>, <<"i", "o">>}
FilterLines == [tok : {MaxTok}, kind : {"ok"}, text : Texts]

\* grep er; grep -v o; grep -i R
GrepArgs == { <<<<"e", "r">>>>,
              <<<<"-", "v">>, <<"o">>>>,
              <<<<"-", "i">>, <<"R">>>> }

\* the lists over S that hold no element twice
RECURSIVE ListsOf(_)
ListsOf(S) ==
    {<<>>} \cup UNION { {<<x>> \o t : t \in ListsOf(S \ {x})} : x \in S }

Keywords == {<<"E", "r">>, <<"-", "1">>}

FilterQueries ==
    {[qq EXCEPT !.greps = g, !.keyword = k] :
        qq \in QueriesOver({None}, {None}, {None}, {DefaultMaxRotate}),
        g \in ListsOf(GrepArgs), k \in Option(Keywords)}

FilterQuery == QueryOver(FilterQueries)

InitFilter == InitOver(LogSetsUpTo(FilterLines, MaxIndex, MaxLines, 0))

NextFilter == FilterQuery

SpecFilter == InitFilter /\ [][NextFilter]_vars

\* Truncation after the filters: lines that differ in token and text,
\* queried with a limit and with a cursor, a grep and a keyword that each
\* reject some of them.
TruncLines == [tok : {MidTok, MaxTok}, kind : {"ok"}, text : {<<"e", "r">>, <<"i", "o">>}]

TruncQueries ==
    {[qq EXCEPT !.greps = g, !.keyword = k] :
        qq \in QueriesOver(Option({MidTok}), {None}, {Some(n) : n \in 1..MaxLimit},
                           {DefaultMaxRotate}),
        g \in {<<>>, <<<<<<"-", "v">>, <<"o">>>>>>},
        k \in Option({<<"E", "r">>})}

TruncQuery == QueryOver(TruncQueries)

InitTrunc == InitOver(LogSetsUpTo(TruncLines, MaxIndex, MaxLines, 0))

NextTrunc == TruncQuery

SpecTrunc == InitTrunc /\ [][NextTrunc]_vars

\* Both variants: at every rotation index, the live file's included, the
\* plain file and the .gz file are each there or not, and differ in how
\* many lines they hold.
Variants(i) ==
    {(Plain(i) :> p) @@ (Gz(i) :> g) :
        p \in Option(SeqsUpTo(LatestLines, MaxLines)),
        g \in Option({Gzip(t) : t \in SeqsUpTo(LatestLines, MaxLines)})}

RECURSIVE VariantSetsUpTo(_)
VariantSetsUpTo(i) ==
    IF i = 0 THEN Variants(0)
    ELSE {f @@ g : f \in Variants(i), g \in VariantSetsUpTo(i - 1)}

VariantQuery ==
    QueryOver(QueriesOver({None}, {None}, {None}, {DefaultMaxRotate}))

InitVariant == InitOver(VariantSetsUpTo(MaxIndex))

NextVariant == VariantQuery

SpecVariant == InitVariant /\ [][NextVariant]_vars

\* ------------------------------------------- one invocation at a time
\* the locals of one invocation: rotate and limit as passed in, the entries
\* of its own file, where it stands ("called", "range", "missing", "piped",
\* "collected") and the value it returns
Frame(rotate, limit) ==
    [rotate |-> rotate, limit |-> limit, entries |-> <<>>, step |-> "called", value |-> <<>>]

Top(w) == w.stack[Len(w.stack)]

SetTop(w, f) == [w EXCEPT !.stack = SubSeq(w.stack, 1, Len(w.stack) - 1) \o <<f>>]

Push(w, f) == [w EXCEPT !.stack = Append(w.stack, f)]

Traced(w, c) == [w EXCEPT !.trace = Append(w.trace, c)]

\* lines 218-257: the processes of the chain for one file
Chain(name, limit, qq) ==
    <<IF name[2] = ".gz" THEN "gzip" ELSE "cat", "tr">>
    \o (IF qq.cursor # None THEN <<"awk">> ELSE <<>>)
    \o [k \in 1..Len(qq.greps) |-> "grep"]
    \o (IF qq.keyword # None /\ qq.keyword # Some(<<>>) THEN <<"grep">> ELSE <<>>)
    \o (IF limit # None THEN <<IF ~qq.forward THEN "tail" ELSE "head">> ELSE <<>>)

\* the Popen objects of a chain and their stdout pipes
Procs(rotate, chain) == {<<rotate, "proc", k>> : k \in 1..Len(chain)}
Pipes(rotate, chain) == {<<rotate, "pipe", k>> : k \in 1..Len(chain)}

\* lines 260-263: stdout of every process but the last is closed, and
\* communicate() reads the last one's stdout to its end, closes it and
\* waits for that process
Communicated(rotate, chain) == Pipes(rotate, chain) \cup {<<rotate, "proc", Len(chain)>>}

\* a variant in which the countdown of the limit outlives the call
FirstFrameLeftover(w) ==
    Frame(StartRotate(w.q),
          IF w.prev # None /\ w.q.limit # None
          THEN Some(w.q.limit[1] - Len(w.prev[1]))
          ELSE w.q.limit)

\* lines 152, 171-177: the locals of the outermost invocation come from the
\* arguments alone
FirstFrame(w) == Frame(StartRotate(w.q), w.q.limit)

\* a caller calls ParseRotatedLog(logfile, ...)
Start(p, Queries) ==
    /\ walk[p].pc = "idle"
    /\ \E qq \in Queries :
          walk' = [walk EXCEPT ![p] =
                      [walk[p] EXCEPT !.pc = "enter", !.q = qq,
                                      !.stack = <<FirstFrame([walk[p] EXCEPT !.q = qq])>>]]
    /\ UNCHANGED <<fs, pc, q, result, calls, sync>>

\* lines 178-224 of the newest invocation: the range check, the file name,
\* a missing file, open() and the chain of processes
Enter(p) ==
    /\ walk[p].pc = "enter"
    /\ LET w == walk[p]
           f == Top(w)
           name == FileName(fs, f.rotate)
       IN walk' = [walk EXCEPT ![p] =
            IF OutOfRange(f.rotate, w.q)
            THEN [Traced(SetTop(w, [f EXCEPT !.step = "range"]),
                         Call(f.rotate, f.limit, "range", <<>>)) EXCEPT !.pc = "ret"]
            ELSE IF ~IsFile(fs, name)
            THEN IF StopAtMissing(f.rotate, w.q)
                 THEN [Traced(SetTop(w, [f EXCEPT !.step = "missing"]),
                              Call(f.rotate, f.limit, "missing", <<>>)) EXCEPT !.pc = "ret"]
                 ELSE Push(Traced(SetTop(w, [f EXCEPT !.step = "missing"]),
                                  Call(f.rotate, f.limit, "missing", <<>>)),
                           Frame(NextRotate(f.rotate, w.q), f.limit))
            ELSE IF ~Readable(fs, name)
            THEN [Traced(w, Call(f.rotate, f.limit, "ioerror", <<>>))
                    EXCEPT !.pc = "raised", !.stack = <<>>]
            ELSE [SetTop(w, [f EXCEPT !.step = "piped"])
                    EXCEPT !.pc = "piped",
                           !.open = @ \cup Procs(f.rotate, Chain(name, f.limit, w.q))
                                      \cup Pipes(f.rotate, Chain(name, f.limit, w.q))]]
    /\ UNCHANGED <<fs, pc, q, result, calls, sync>>

\* a variant in which the limit is one variable of the module, shared by
\* every invocation of every caller
LimitShared(p, f) ==
    IF walk["a"].stack # <<>> THEN Top(walk["a"]).limit ELSE f.limit

\* lines 152, 253-285: the limit an invocation truncates by and counts down
\* is its own parameter
Limit(p, f) == f.limit

\* lines 259-299: the pipes are closed, the output is read and parsed, and
\* the invocation either calls itself for the next index or returns
Gather(p) ==
    /\ walk[p].pc = "piped"
    /\ LET w == walk[p]
           f == Top(w)
           name == FileName(fs, f.rotate)
           c == Collect(fs, name, Limit(p, f), w.q)
           u == [Traced(w, Call(f.rotate, f.limit, "collected", c.entries))
                   EXCEPT !.open = @ \ Communicated(f.rotate, Chain(name, f.limit, w.q))]
       IN walk' = [walk EXCEPT ![p] =
            IF Continue(c.limit)
            THEN [Push(SetTop(u, [f EXCEPT !.step = "collected", !.entries = c.entries]),
                       Frame(NextRotate(f.rotate, w.q), c.limit)) EXCEPT !.pc = "enter"]
            ELSE [SetTop(u, [f EXCEPT !.step = "collected", !.entries = c.entries,
                                      !.value = c.entries]) EXCEPT !.pc = "ret"]]
    /\ UNCHANGED <<fs, pc, q, result, calls, sync>>

\* lines 179, 198, 200, 300-304: the newest invocation returns; its caller
\* passes the value on (line 200) or merges it with its own entries (lines
\* 300-303).  The Popen objects of the returning invocation are dropped
\* with its locals, and the interpreter may or may not reap them then.
Return(p) ==
    /\ walk[p].pc = "ret"
    /\ LET w == walk[p]
           f == Top(w)
       IN \E reaped \in BOOLEAN :
            LET u == [w EXCEPT !.open = IF reaped
                                        THEN {h \in @ : h[1] # f.rotate}
                                        ELSE @]
            IN walk' = [walk EXCEPT ![p] =
                 IF Len(w.stack) = 1
                 THEN [u EXCEPT !.pc = "done", !.stack = <<>>, !.result = f.value]
                 ELSE LET g == w.stack[Len(w.stack) - 1]
                          v == IF g.step = "missing" THEN f.value
                               ELSE Merge(g.entries, f.value, w.q)
                      IN [u EXCEPT !.stack = SubSeq(w.stack, 1, Len(w.stack) - 2)
                                             \o <<[g EXCEPT !.value = v]>>]]
    /\ UNCHANGED <<fs, pc, q, result, calls, sync>>

\* the caller makes the same call once more
Repeat(p) ==
    /\ walk[p].pc = "done"
    /\ walk[p].prev = None
    /\ LET w == walk[p]
       IN walk' = [walk EXCEPT ![p] =
                      [w EXCEPT !.pc = "enter", !.prev = Some(w.result), !.result = <<>>,
                                !.trace = <<>>,
                                !.stack = <<FirstFrame([w EXCEPT !.prev = Some(w.result)])>>]]
    /\ UNCHANGED <<fs, pc, q, result, calls, sync>>

\* a file that exists but may not be read, and a compressed file damaged
\* after its first k lines: gzip -d writes those lines and fails
Deny(files, name) == [files EXCEPT ![name] = <<files[name][1], "denied">>]
Damage(files, name, k) ==
    [files EXCEPT ![name] = Some(<<"damaged", SubSeq(Gunzip(files[name][1]), 1, k)>>)]

\* a log set, and the same with one of its files unreadable or damaged
WithOneBad(files) ==
    {files}
    \cup {Deny(files, n) : n \in {m \in DOMAIN files : IsFile(files, m)}}
    \cup UNION { {Damage(files, n, k) : k \in 0..(Len(Gunzip(files[n][1])) - 1)}
                 : n \in {m \in DOMAIN files : IsFile(files, m) /\ m[2] = ".gz"} }

\* One caller, one invocation at a time: files that cannot be read, windows
\* the right and the wrong way round, a maxrotate below, at and above the
\* rotation indices in use.
WalkQueries ==
    {qq \in QueriesOver(Option({MidTok}), Option({MaxTok}), {None, Some(1)},
                        {0 - 2, MaxIndex, MaxIndex + 2}) :
        /\ (qq.cursor = None) = (qq.endcursor = None)
        /\ qq.includecursor = (qq.cursor # None)
        /\ qq.includeendcursor = (qq.endcursor # None)}

InitWalk ==
    InitOver(UNION {WithOneBad(files) :
                       files \in LogSetsUpTo(RecentLines, MaxIndex + 1, MaxLines, 0)})

NextWalk ==
    \/ Start("a", WalkQueries)
    \/ Enter("a")
    \/ Gather("a")
    \/ Return("a")
    \/ Repeat("a")

SpecWalk == InitWalk /\ [][NextWalk]_vars

\* Termination: every maxrotate from below 0 to above the indices in use,
\* log sets with every file missing, files that cannot be read; a query
\* that has been called keeps running (the interpreter executes it).
TermQueries ==
    QueriesOver({None}, {None}, {None, Some(1)}, (0 - 2)..(MaxIndex + 2))

InitTerm ==
    InitOver(UNION {WithOneBad(files) :
                       files \in LogSetsUpTo(LatestLines, MaxIndex + 1, MaxLines, 0)})

Running(p) == Enter(p) \/ Gather(p) \/ Return(p)

NextTerm ==
    \/ Start("a", TermQueries)
    \/ Running("a")

SpecTerm == InitTerm /\ [][NextTerm]_vars /\ WF_vars(Running("a"))

\* Two callers whose invocations interleave in any order; the lines all
\* carry one token, the files differ in how many they hold.
PairQueries ==
    QueriesOver({None}, {None}, {None, Some(1)}, {MaxIndex + 1})

InitPair == InitOver(LogSetsUpTo(LatestLines, MaxIndex, MaxLines, 0))

NextPair ==
    \E p \in Callers :
        \/ Start(p, PairQueries)
        \/ Enter(p)
        \/ Gather(p)
        \/ Return(p)

SpecPair == InitPair /\ [][NextPair]_vars

\* Rotation while a query runs.  logrotate renames logfile.N-1 to
\* logfile.N for every N (compressing from index 2 on, dropping the file
\* of the highest index kept) and creates a fresh, empty logfile.
Shifted(files, i) ==
    IF i = 0 THEN Stored(0, <<>>)
    ELSE IF IsFile(files, FileName(files, i - 1))
         THEN Stored(i, ReadFile(files, FileName(files, i - 1)))
         ELSE Absent(i)

Rotated(files) == [n \in DOMAIN files |-> Shifted(files, n[1])[n]]

\* the log set is rotated between two invocations of a running query:
\* no file is open in an invocation then (the with block of line 218 and
\* communicate() of line 263 are over)
Rotate ==
    /\ IsFile(fs, Plain(0))
    /\ \A p \in Callers : walk[p].pc # "piped"
    /\ fs' = Rotated(fs)
    /\ UNCHANGED <<pc, q, result, calls, walk, sync>>

\* no token on two lines of the log set
DistinctLines(files) ==
    \A i, j \in 0..(MaxIndex + 1) :
        \A a \in 1..Len(LinesAt(files, i)) : \A b \in 1..Len(LinesAt(files, j)) :
            (i # j \/ a # b) => LinesAt(files, i)[a].tok # LinesAt(files, j)[b].tok

RotationQueries == QueriesOver({None}, {None}, {None, Some(1)}, {MaxIndex + 1})

InitRotation ==
    InitOver({files \in LogSetsUpTo(RecentLines, MaxIndex + 1, MaxLines, 0) :
                 DistinctLines(files)})

NextRotation ==
    \/ Start("a", RotationQueries)
    \/ Enter("a")
    \/ Gather("a")
    \/ Return("a")
    \/ Rotate

SpecRotation == InitRotation /\ [][NextRotation]_vars

\* ------------------------------------------------- start/stop handshake
\* an event of the history: what happened, in which process, for which
\* command, with which value
Event(what, who, command, value) ==
    [what |-> what, who |-> who, command |-> command, value |-> value]

Logged(y, e) == [y EXCEPT !.log = Append(@, e)]

\* lines 30-35: a new REQ socket is connected and the request is sent
Send(y, c, command) ==
    [y EXCEPT !.call[c] = [pc |-> "poll", command |-> command,
                           n |-> y.call[c].n + 1, returned |-> FALSE],
              !.reply[c] = None,
              !.requests[endpoint(c)] =
                  Append(@, [command |-> command, id |-> c, n |-> y.call[c].n + 1])]

\* a variant in which any reply counts as success
IsSendSuccessfulAny(message, data) == TRUE

\* line 40
IsSendSuccessful(message, data) ==
    message.command = data.command /\ message.id = data.id

\* lines 37-42: the reply arrived within the timeout
Received(y, c) ==
    Logged([y EXCEPT !.call[c].pc = "returned",
                     !.call[c].returned =
                         IsSendSuccessful(y.reply[c][1],
                                          [command |-> y.call[c].command, id |-> c]),
                     !.reply[c] = None],
           Event("returned", c, y.call[c].command,
                 IsSendSuccessful(y.reply[c][1],
                                  [command |-> y.call[c].command, id |-> c])))

\* lines 37-42: poll(timeout) ran out; the socket is closed, the request
\* stays on its way to the server
TimedOut(y, c) ==
    Logged([y EXCEPT !.call[c].pc = "returned", !.call[c].returned = FALSE],
           Event("returned", c, y.call[c].command, FALSE))

\* plcOrderCycles.py:98: motionControllerClient.StartControllerDataCollection()
StartControllerDataCollection ==
    /\ sync.main = "sync"
    /\ sync' = [Send(sync, "plc", "Start") EXCEPT !.main = "starting"]
    /\ UNCHANGED <<fs, pc, q, result, calls, walk>>

\* a variant of the script that goes on to its order cycles whatever the
\* Start call returned
AfterStartAlways(motionServerState) == "cycles"

\* plcOrderCycles.py:100, 131: the branch taken after the Start call
AfterStart(motionServerState) == IF motionServerState THEN "cycles" ELSE "failed"

\* lines 37-42, plcOrderCycles.py:100-131: the reply is there and the call
\* returns; the order cycles run only when the Start call returned True
SendReceive(c) ==
    /\ sync.call[c].pc = "poll"
    /\ sync.reply[c] # None
    /\ LET y == Received(sync, c)
       IN sync' = IF c = "plc"
                  THEN [y EXCEPT !.main =
                           IF sync.main = "starting"
                           THEN AfterStart(y.call[c].returned)
                           ELSE "finished"]
                  ELSE y
    /\ UNCHANGED <<fs, pc, q, result, calls, walk>>

\* lines 37-42: poll(timeout) runs out before a reply is there
Timeout(c) ==
    /\ sync.call[c].pc = "poll"
    /\ sync.reply[c] = None
    /\ sync' = IF c = "plc"
               THEN [TimedOut(sync, c) EXCEPT !.main =
                        IF sync.main = "starting" THEN AfterStart(FALSE) ELSE "finished"]
               ELSE TimedOut(sync, c)
    /\ UNCHANGED <<fs, pc, q, result, calls, walk>>

\* plcOrderCycles.py:105-111: the order is prepared and requested
SetStartOrderCycle ==
    /\ sync.main = "cycles"
    /\ sync' = Logged([sync EXCEPT !.order.startOrderCycle = TRUE,
                                   !.main = "awaiting"],
                      Event("set", "plc", "startOrderCycle", TRUE))
    /\ UNCHANGED <<fs, pc, q, result, calls, walk>>

\* plcOrderCycles.py:115-117: the loop ends when SyncAndGet returned True
ObserveRunning ==
    /\ sync.main = "awaiting"
    /\ sync.order.isRunningOrderCycle = Some(TRUE)
    /\ sync' = Logged([sync EXCEPT !.main = "clearing"],
                      Event("observed", "plc", "isRunningOrderCycle", TRUE))
    /\ UNCHANGED <<fs, pc, q, result, calls, walk>>

\* plcOrderCycles.py:120-121
ClearStartOrderCycle ==
    /\ sync.main = "clearing"
    /\ sync' = Logged([sync EXCEPT !.order.startOrderCycle = FALSE,
                                   !.main = "running"],
                      Event("set", "plc", "startOrderCycle", FALSE))
    /\ UNCHANGED <<fs, pc, q, result, calls, walk>>

\* plcOrderCycles.py:124-125: the loop ends when SyncAndGet returned False
ObserveFinished ==
    /\ sync.main = "running"
    /\ sync.order.isRunningOrderCycle = Some(FALSE)
    /\ sync' = Logged([sync EXCEPT !.main = "finishing"],
                      Event("observed", "plc", "isRunningOrderCycle", FALSE))
    /\ UNCHANGED <<fs, pc, q, result, calls, walk>>

\* plcOrderCycles.py:113, 123: the robot controller writes
\* isRunningOrderCycle into the PLC memory, through the PLC server; the
\* writes the script can see are those made while it reads the signal
Controller ==
    /\ sync.main \in {"awaiting", "clearing", "running"}
    /\ \E b \in BOOLEAN :
          /\ sync.order.isRunningOrderCycle # Some(b)
          /\ sync' = [sync EXCEPT !.order.isRunningOrderCycle = Some(b)]
    /\ UNCHANGED <<fs, pc, q, result, calls, walk>>

\* plcOrderCycles.py:127: motionControllerClient.StopControllerDataCollection()
StopControllerDataCollection ==
    /\ sync.main = "finishing"
    /\ sync' = [Send(sync, "plc", "Stop") EXCEPT !.main = "stopping"]
    /\ UNCHANGED <<fs, pc, q, result, calls, walk>>

\* plcOrderCycles.py:129-137: after either branch of the if, server.Stop()
PlcServerStop ==
    /\ sync.main \in {"finished", "failed"}
    /\ sync' = Logged([sync EXCEPT !.server = "stopped", !.main = "exit"],
                      Event("stopped", "plc", "server", TRUE))
    /\ UNCHANGED <<fs, pc, q, result, calls, walk>>

\* a variant that echoes the request whatever the downstream server said
ReplyCommandEcho(command, shouldStartDataCollection) == command

\* lines 95-96: the command of the reply to a Start request
ReplyCommand(command, shouldStartDataCollection) ==
    IF shouldStartDataCollection THEN command ELSE "FAILURE"

\* lines 77-90, 102-109: the server thread receives a request and takes
\* the lock (lines 84, 103).  Start without downstream client: the flag is
\* set (line 98) and the lock released (line 99).  Start with one: the
\* downstream server is asked first (line 90), the lock held.  Stop: the
\* flag is cleared (line 104), the lock released (line 105), then the
\* downstream server is asked (line 109).
RunThreadReceive(s) ==
    /\ sync.thread[s].pc = "poll"
    /\ sync.requests[s] # <<>>
    /\ sync.lock[s] = "free"
    /\ LET message == Head(sync.requests[s])
           y == Logged([sync EXCEPT !.requests[s] = Tail(@),
                                    !.thread[s].message = Some(message)],
                       Event("received", s, message.command, TRUE))
       IN sync' =
            IF message.command = "Start"
            THEN IF syncControllerClient(s) = None
                 THEN Logged([y EXCEPT !.shouldRun[s] = TRUE, !.thread[s].pc = "reply"],
                             Event("set", s, message.command, TRUE))
                 ELSE [Send(y, s, "Start") EXCEPT !.thread[s].pc = "request",
                                                  !.lock[s] = "thread"]
            ELSE IF syncControllerClient(s) = None
                 THEN Logged([y EXCEPT !.shouldRun[s] = FALSE, !.thread[s].pc = "reply"],
                             Event("set", s, message.command, FALSE))
                 ELSE [Send(Logged([y EXCEPT !.shouldRun[s] = FALSE],
                                   Event("set", s, message.command, FALSE)),
                            s, "Stop") EXCEPT !.thread[s].pc = "request"]
    /\ UNCHANGED <<fs, pc, q, result, calls, walk>>

\* lines 90-99, 109: the call to the downstream server returned; for a
\* Start request its answer becomes the flag and decides the reply, and
\* the lock is released
RunThreadRequested(s) ==
    /\ sync.thread[s].pc = "request"
    /\ sync.call[s].pc = "returned"
    /\ LET message == sync.thread[s].message[1]
           serverState == sync.call[s].returned
           y == [sync EXCEPT !.call[s].pc = "idle", !.thread[s].pc = "reply"]
       IN sync' =
            IF message.command = "Start"
            THEN Logged([y EXCEPT !.shouldRun[s] = serverState,
                                  !.lock[s] = "free",
                                  !.thread[s].message =
                                      Some([message EXCEPT !.command =
                                               ReplyCommand(message.command, serverState)])],
                        Event("set", s, message.command, serverState))
            ELSE y
    /\ UNCHANGED <<fs, pc, q, result, calls, walk>>

\* line 76: the loop condition
LeavesLoop(isOk) == ~isOk

\* lines 114, 76, 119: the reply is sent; it reaches the client when the
\* socket the request came from is still polling.  The thread then tests
\* _isOk: it polls again, or leaves the loop and closes its socket
RunThreadReply(s) ==
    /\ sync.thread[s].pc = "reply"
    /\ LET message == sync.thread[s].message[1]
           c == message.id
           y == Logged([sync EXCEPT !.thread[s] =
                           [pc |-> IF LeavesLoop(sync.isOk[s]) THEN "closed" ELSE "poll",
                            message |-> None]],
                       Event("replied", s, message.command, TRUE))
       IN sync' = IF sync.call[c].pc = "poll" /\ sync.call[c].n = message.n
                  THEN [y EXCEPT !.reply[c] = Some(message)]
                  ELSE y
    /\ UNCHANGED <<fs, pc, q, result, calls, walk>>

\* The handshake: the PLC script asks the motion controller's server to
\* start, which asks the vision controller's; it runs its order cycles,
\* asks to stop and stops its PLC server; any poll may time out.
InitSync == InitOver({Absent(0)})

NextSync ==
    \/ StartControllerDataCollection
    \/ SetStartOrderCycle
    \/ ObserveRunning
    \/ ClearStartOrderCycle
    \/ ObserveFinished
    \/ Controller
    \/ StopControllerDataCollection
    \/ PlcServerStop
    \/ \E c \in Clients : SendReceive(c) \/ Timeout(c)
    \/ \E s \in Servers : RunThreadReceive(s) \/ RunThreadRequested(s) \/ RunThreadReply(s)

SpecSync == InitSync /\ [][NextSync]_vars

\* ------------------------------------------- the servers' life and death
\* lines 142-146, motionControllerDataCollection.py:170, 185,
\* visionControllerDataCollection.py:146, 161: the main thread of a server
\* process calls ShouldRun, which takes the lock, reads the flag and
\* releases the lock; the first loop of the main thread ends on True, the
\* second on False.  While the server thread holds the lock the call waits
\* at line 143.
ShouldRun(s) ==
    /\ sync.proc[s] \in {"waiting", "collecting"}
    /\ sync.lock[s] = "free"
    /\ LET runState == sync.shouldRun[s]
       IN /\ runState = (sync.proc[s] = "waiting")
          /\ sync' = [sync EXCEPT !.proc[s] =
                         IF sync.proc[s] = "waiting" THEN "collecting" ELSE "stop"]
    /\ UNCHANGED <<fs, pc, q, result, calls, walk>>

\* lines 126-128: Stop() sets _isOk False and goes on to join the thread
ServerStop(s) ==
    /\ sync.proc[s] = "stop"
    /\ sync' = Logged([sync EXCEPT !.isOk[s] = FALSE, !.proc[s] = "join"],
                      Event("stop", s, "", TRUE))
    /\ UNCHANGED <<fs, pc, q, result, calls, walk>>

\* lines 76, 119: the server thread finds _isOk False after a poll that
\* received nothing, leaves the loop and closes its socket
RunThreadLeave(s) ==
    /\ sync.thread[s].pc = "poll"
    /\ LeavesLoop(sync.isOk[s])
    /\ sync' = Logged([sync EXCEPT !.thread[s].pc = "closed"],
                      Event("closed", s, "", TRUE))
    /\ UNCHANGED <<fs, pc, q, result, calls, walk>>

\* lines 130-139: join returns once the thread has ended, by leaving the
\* loop or by an exception; the context is destroyed
ServerJoin(s) ==
    /\ sync.proc[s] = "join"
    /\ sync.thread[s].pc \in {"closed", "dead"}
    /\ sync' = Logged([sync EXCEPT !.proc[s] = "stopped"],
                      Event("joined", s, "", TRUE))
    /\ UNCHANGED <<fs, pc, q, result, calls, walk>>

\* lines 31-35 inside lines 84-90, 103-109: the call to the downstream
\* server raises (socket() or connect() fails) instead of returning.
\* Nothing in _RunThread catches it: the thread ends where it is, for a
\* Start request with the lock taken at line 84, for a Stop request after
\* lines 103-105
RunThreadRaise(s) ==
    /\ sync.thread[s].pc = "poll"
    /\ sync.requests[s] # <<>>
    /\ sync.lock[s] = "free"
    /\ syncControllerClient(s) # None
    /\ LET message == Head(sync.requests[s])
           y == Logged([sync EXCEPT !.requests[s] = Tail(@),
                                    !.thread[s].message = Some(message)],
                       Event("received", s, message.command, TRUE))
       IN sync' =
            IF message.command = "Start"
            THEN Logged([y EXCEPT !.lock[s] = "thread", !.thread[s].pc = "dead"],
                        Event("raised", s, message.command, TRUE))
            ELSE Logged(Logged([y EXCEPT !.shouldRun[s] = FALSE, !.thread[s].pc = "dead"],
                               Event("set", s, message.command, FALSE)),
                        Event("raised", s, message.command, TRUE))
    /\ UNCHANGED <<fs, pc, q, result, calls, walk>>

\* lines 31-35 inside plcOrderCycles.py:98, 127: the PLC script's call
\* raises; main() ends with the exception
ClientRaise ==
    /\ sync.main \in {"sync", "finishing"}
    /\ sync' = Logged([sync EXCEPT !.main = "crashed"],
                      Event("raised", "plc",
                            IF sync.main = "sync" THEN "Start" ELSE "Stop", TRUE))
    /\ UNCHANGED <<fs, pc, q, result, calls, walk>>

\* The servers from their start to their Stop(), with calls that raise,
\* under one run of the PLC script.
NextServer ==
    \/ NextSync
    \/ ClientRaise
    \/ \E s \in Servers :
          \/ ShouldRun(s)
          \/ ServerStop(s)
          \/ RunThreadLeave(s)
          \/ ServerJoin(s)
          \/ RunThreadRaise(s)

SpecServer == InitSync /\ [][NextServer]_vars

\* ------------------------------------------------------- claim vocabulary
Done == pc = "done"

Reverse(s) == [i \in 1..Len(s) |-> s[Len(s) + 1 - i]]

IsPrefix(s, t) == Len(s) <= Len(t) /\ SubSeq(t, 1, Len(s)) = s

Min(a, b) == IF a <= b THEN a ELSE b

\* the cursor of an entry the parser returned
Cursor(entry) == entry[1]

NonIncreasing(es) == \A i \in 1..(Len(es) - 1) : Cursor(es[i]) >= Cursor(es[i + 1])
NonDecreasing(es) == \A i \in 1..(Len(es) - 1) : Cursor(es[i]) <= Cursor(es[i + 1])

\* the entries of the well-formed lines of a sequence of lines, in its order
RECURSIVE EntriesOf(_)
EntriesOf(lines) ==
    IF lines = <<>> THEN <<>>
    ELSE IF lines[1].kind = "ok"
         THEN <<<<lines[1].tok, "payload">>>> \o EntriesOf(Tail(lines))
         ELSE EntriesOf(Tail(lines))

\* the entries the invocations took from their files, in the given order
RECURSIVE Flatten(_)
Flatten(cs) == IF cs = <<>> THEN <<>> ELSE cs[1].entries \o Flatten(Tail(cs))

Collected == SelectSeq(calls, LAMBDA c : c.step = "collected")

Exists(files, i) == IsFile(files, FileName(files, i))

AllIndices == 0..(MaxIndex + 2)

\* every file is written in non-decreasing cursor order and a higher
\* rotation index holds older lines
WellOrdered(files) ==
    /\ \A i \in AllIndices : \A a, b \in 1..Len(LinesAt(files, i)) :
           a < b => LinesAt(files, i)[a].tok <= LinesAt(files, i)[b].tok
    /\ \A i, j \in AllIndices : i < j =>
           \A a \in 1..Len(LinesAt(files, j)) : \A b \in 1..Len(LinesAt(files, i)) :
              LinesAt(files, j)[a].tok <= LinesAt(files, i)[b].tok

\* a returned list read in the direction of the query: a backward query
\* from its latest entry, a forward query from its oldest
InDirectionOrder(es, qq) == IF qq.forward THEN Reverse(es) ELSE es

\* the same call without limit
Unlimited(files, qq) ==
    ParseRotatedLog(files, None, None, [qq EXCEPT !.limit = None]).entries

\* the window of section 4.3: an absent bound leaves its side unconstrained
WithinCursor(tok, qq) ==
    \/ qq.cursor = None
    \/ /\ ~qq.forward
       /\ IF qq.includecursor THEN tok <= qq.cursor[1] ELSE tok < qq.cursor[1]
    \/ /\ qq.forward
       /\ IF qq.includecursor THEN tok >= qq.cursor[1] ELSE tok > qq.cursor[1]

WithinEndCursor(tok, qq) ==
    \/ qq.endcursor = None
    \/ /\ ~qq.forward
       /\ IF qq.includeendcursor THEN tok >= qq.endcursor[1] ELSE tok > qq.endcursor[1]
    \/ /\ qq.forward
       /\ IF qq.includeendcursor THEN tok <= qq.endcursor[1] ELSE tok < qq.endcursor[1]

\* ------------------------------------------------------------------ claims
\* C1: every returned entry's cursor satisfies both window bounds, for every
\* combination of cursor and endcursor present or absent and both flags; in
\* particular without cursor but with endcursor no entry lies beyond
\* endcursor.  (Stated as claimed; the code violates it.)
C1_WithinWindow ==
    Done => \A i \in 1..Len(result) :
                WithinCursor(Cursor(result[i]), q) /\ WithinEndCursor(Cursor(result[i]), q)

\* C2: a backward query over a well-ordered log set returns its entries in
\* non-increasing cursor order: the entries of a newer file precede those of
\* an older file, and each file's entries are in reverse physical order.
C2_BackwardLatestFirst ==
    (Done /\ ~q.forward /\ WellOrdered(fs)) =>
        /\ NonIncreasing(result)
        /\ result = Flatten(calls)
        /\ \A k \in 1..Len(calls) : \A m \in 1..(k - 1) : calls[m].rotate < calls[k].rotate
        /\ \A k \in 1..Len(Collected) : NonIncreasing(Collected[k].entries)

C2_Witness ==
    /\ Done /\ ~q.forward /\ WellOrdered(fs)
    /\ Len(Collected) >= 2
    /\ Len(Collected[1].entries) >= 2
    /\ Len(Collected[2].entries) >= 1
    /\ Cursor(result[1]) > Cursor(result[3])

\* C3 as claimed: a forward query over a well-ordered log set returns its
\* entries in non-decreasing cursor order (oldest first).
C3_ForwardOldestFirst ==
    (Done /\ q.forward /\ WellOrdered(fs)) => NonDecreasing(result)

\* C3 as amended: a forward query over a well-ordered log set returns its
\* entries in non-increasing cursor order (latest first): the entries of a
\* newer file come before those of an older file, although the older file
\* is read first, and each file's entries are in reverse physical order.
C3_ForwardLatestFirst ==
    (Done /\ q.forward /\ WellOrdered(fs)) =>
        /\ NonIncreasing(result)
        /\ result = Flatten(Reverse(calls))
        /\ \A k \in 1..Len(calls) : \A m \in 1..(k - 1) : calls[m].rotate > calls[k].rotate
        /\ \A k \in 1..Len(Collected) : NonIncreasing(Collected[k].entries)

C3_Witness ==
    /\ Done /\ q.forward /\ WellOrdered(fs)
    /\ Len(Collected) >= 2
    /\ Len(Collected[1].entries) >= 1
    /\ Len(Collected[2].entries) >= 2
    /\ Cursor(result[1]) > Cursor(result[3])

\* C4: a query with limit N >= 0 returns at most N entries, counted across
\* all rotation files, in either direction and whatever lines are dropped.
C4_AtMostLimit ==
    (Done /\ q.limit # None) =>
        /\ Len(result) <= q.limit[1]
        /\ Len(Flatten(calls)) <= q.limit[1]

C4_Witness ==
    /\ Done /\ q.limit = Some(MaxLimit)
    /\ Len(result) = MaxLimit
    /\ Len(Collected) >= 2
    /\ Len(Collected[1].entries) >= 1
    /\ Len(Collected[2].entries) >= 1
    /\ \E i \in AllIndices : Dropped(LinesAt(fs, i)) > 0

\* C5: the sequence a query with limit N returns is a prefix of the sequence
\* the same query returns with limit None over the same log set, in both
\* directions and also when lines fail to parse.  (Stated as claimed; the
\* code violates it.)  Both sequences are read in the direction's order, as
\* section 8 has it: a forward result from its oldest entry on.
C5_LimitedIsPrefix ==
    (Done /\ q.limit # None) =>
        IsPrefix(InDirectionOrder(result, q), InDirectionOrder(Unlimited(fs, q), q))

\* C6: a query with limit N returns fewer than N entries only when the same
\* query without limit returns fewer than N; otherwise exactly N.  Dropped
\* lines do not reduce the count.  (Stated as claimed; the code violates it.)
C6_ShortOnlyWhenExhausted ==
    (Done /\ q.limit # None) =>
        Len(result) = Min(q.limit[1], Len(Unlimited(fs, q)))

\* the n most recent (physically last) and the n earliest lines
MostRecent(lines, n) == [i \in 1..Min(n, Len(lines)) |-> lines[Len(lines) - Min(n, Len(lines)) + i]]
Earliest(lines, n) == [i \in 1..Min(n, Len(lines)) |-> lines[i]]

\* the lines of index i that pass the filters of the query
Matching(files, i, qq) == Awk(LinesAt(files, i), qq)

Cut(files, g) == [n \in DOMAIN files |-> IF n[1] > g THEN None ELSE files[n]]

\* C8: in a backward query a missing file at an index g > 0 ends the walk:
\* no index above g is probed, no file at or above g is read, and the
\* result is what the log set without the files above g gives.
C8_StopsAtGap ==
    (Done /\ ~q.forward) =>
        \A g \in 1..q.maxrotate :
            ~Exists(fs, g) =>
                /\ \A k \in 1..Len(calls) : calls[k].rotate <= g
                /\ \A k \in 1..Len(Collected) : Collected[k].rotate < g
                /\ result = ParseRotatedLog(Cut(fs, g), None, q.limit, q).entries

\* live, .1 and .3 present, .2 missing: entries only from live and .1
C8_Witness ==
    /\ Done /\ ~q.forward /\ q.limit = None /\ q.maxrotate = DefaultMaxRotate
    /\ Len(LinesAt(fs, 0)) = 1 /\ Len(LinesAt(fs, 1)) = 1
    /\ ~Exists(fs, 2)
    /\ Len(LinesAt(fs, 3)) = 1
    /\ result = EntriesOf(LinesAt(fs, 0)) \o EntriesOf(LinesAt(fs, 1))
    /\ Cursor(result[1]) # LinesAt(fs, 3)[1].tok
    /\ Cursor(result[2]) # LinesAt(fs, 3)[1].tok

\* C9: without limit, a line without separator or one the parser rejects
\* yields no entry and no error, and every well-formed line that passes the
\* filters in a file that is read yields its entry.
C9_DroppedLinesTolerated ==
    (Done /\ q.limit = None) =>
        /\ \A k \in 1..Len(Collected) :
              Collected[k].entries =
                  Reverse(EntriesOf(Matching(fs, Collected[k].rotate, q)))
        /\ result = Flatten(IF q.forward THEN Reverse(calls) ELSE calls)

C9_Witness ==
    /\ Done /\ q.limit = None /\ q.cursor = None
    /\ Len(Collected) >= 2
    /\ \E k \in 1..Len(Collected) :
          /\ Len(LinesAt(fs, Collected[k].rotate)) = MaxLines
          /\ Dropped(LinesAt(fs, Collected[k].rotate)) = 1
    /\ Len(result) = MaxTotal - 1

\* the backward query with cursor and endcursor exchanged, flags with them
Mirror(qq) ==
    [qq EXCEPT !.forward = FALSE,
               !.cursor = qq.endcursor, !.includecursor = qq.includeendcursor,
               !.endcursor = qq.cursor, !.includeendcursor = qq.includecursor]

\* no file exists above a missing rotation index g > 0
Contiguous(files, maxrotate) ==
    \A g \in 1..maxrotate : ~Exists(files, g) =>
        \A j \in (g + 1)..maxrotate : ~Exists(files, j)

Unwindowed(files, qq) ==
    ParseRotatedLog(files, None, qq.limit,
                    [qq EXCEPT !.cursor = None, !.includecursor = FALSE,
                               !.endcursor = None, !.includeendcursor = FALSE]).entries

\* the closed cursor window [lo, hi]
InWindow(tok, lo, hi) == lo <= tok /\ tok <= hi

\* C11 as claimed: for windows W1 = [endcursor, b1] and W2 = [a2, cursor]
\* with b1 < a2, the backward query from the end of W2 to the start of W1
\* returns exactly the entries of W1 and W2, each once, newest first.
C11_UnionOfWindows ==
    (Done /\ ~q.forward /\ q.cursor # None /\ q.endcursor # None
          /\ q.includecursor /\ q.includeendcursor /\ q.limit = None) =>
        \A b1, a2 \in WideTokens :
            (q.endcursor[1] <= b1 /\ b1 < a2 /\ a2 <= q.cursor[1]) =>
                /\ result = SelectSeq(Unwindowed(fs, q), LAMBDA e :
                                 \/ InWindow(Cursor(e), q.endcursor[1], b1)
                                 \/ InWindow(Cursor(e), a2, q.cursor[1]))
                /\ WellOrdered(fs) => NonIncreasing(result)

\* C11 as amended: the backward query from the end of W2 to the start of W1
\* returns exactly the entries from the start of W1 to the end of W2, each
\* once, newest first, those lying between the two windows included; it is
\* the entries of W1 and W2 exactly when no entry lies between them.
C11_SpanOfWindows ==
    (Done /\ ~q.forward /\ q.cursor # None /\ q.endcursor # None
          /\ q.includecursor /\ q.includeendcursor /\ q.limit = None) =>
        /\ result = SelectSeq(Unwindowed(fs, q), LAMBDA e :
                         InWindow(Cursor(e), q.endcursor[1], q.cursor[1]))
        /\ WellOrdered(fs) => NonIncreasing(result)
        /\ \A b1, a2 \in WideTokens :
              (q.endcursor[1] <= b1 /\ b1 < a2 /\ a2 <= q.cursor[1]) =>
                 ( (\A k \in 1..Len(Unwindowed(fs, q)) :
                        ~(b1 < Cursor(Unwindowed(fs, q)[k]) /\ Cursor(Unwindowed(fs, q)[k]) < a2))
                   <=> result = SelectSeq(Unwindowed(fs, q), LAMBDA e :
                                    \/ InWindow(Cursor(e), q.endcursor[1], b1)
                                    \/ InWindow(Cursor(e), a2, q.cursor[1])) )

\* W1 = [1, 1], W2 = [MaxTok + 1, MaxTok + 1], an entry in each and one between
C11_Witness ==
    /\ Done /\ ~q.forward /\ q.includecursor /\ q.includeendcursor /\ q.limit = None
    /\ q.endcursor = Some(1) /\ q.cursor = Some(MaxTok + 1)
    /\ WellOrdered(fs)
    /\ Len(Collected) >= 2
    /\ Len(result) = MaxTotal
    /\ Cursor(result[1]) = MaxTok + 1
    /\ Cursor(result[Len(result)]) = 1
    /\ \E k \in 1..Len(result) : 1 < Cursor(result[k]) /\ Cursor(result[k]) < MaxTok + 1

\* C12: a caller that repeats its query over the unchanged log set gets the
\* sequence it got before, and no step of a query changes a log file.
C12_RepeatGivesSame ==
    [][/\ fs' = fs
       /\ \A p \in Callers :
             (walk'[p].pc = "done" /\ walk'[p].prev # None) =>
                 walk'[p].result = walk'[p].prev[1]]_vars

\* a repeated query with a limit that went over two files and returned
\* the limit's worth of entries both times
C12_Witness ==
    /\ walk["a"].pc = "done" /\ walk["a"].prev # None
    /\ walk["a"].q.limit # None
    /\ Len(walk["a"].trace) >= 2
    /\ Len(walk["a"].result) = walk["a"].q.limit[1]
    /\ walk["a"].result = walk["a"].prev[1]

\* the invocation a query raised in
Last(t) == t[Len(t)]

\* C13: a query does not raise because of a rotated file: if it raised, it
\* was on the live file.  (Stated as claimed; the code violates it.)
C13_RotatedFileNeverRaises ==
    \A p \in Callers :
        walk[p].pc = "raised" => Last(walk[p].trace).rotate = 0

\* the file of a rotation index is compressed and damaged
Damaged(files, i) ==
    /\ IsFile(files, FileName(files, i))
    /\ FileName(files, i)[2] = ".gz"
    /\ files[FileName(files, i)][1][1] = "damaged"

\* C14: a query that returns normally has read no file whose decompression
\* failed.  (Stated as claimed; the code violates it.)
C14_FailureIsExplicit ==
    \A p \in Callers :
        walk[p].pc = "done" =>
            \A k \in 1..Len(walk[p].trace) :
                walk[p].trace[k].step = "collected" => ~Damaged(fs, walk[p].trace[k].rotate)

\* endcursor lies before cursor in the direction of the query
Inverted(qq) ==
    /\ qq.cursor # None /\ qq.endcursor # None
    /\ IF ~qq.forward THEN qq.endcursor[1] > qq.cursor[1]
                      ELSE qq.endcursor[1] < qq.cursor[1]

\* C15: a query whose endcursor lies before its cursor probes no file and
\* returns no sequence.  (Stated as claimed; the code violates it.)
C15_InvertedWindowFailsFast ==
    \A p \in Callers :
        Inverted(walk[p].q) => (walk[p].trace = <<>> /\ walk[p].pc # "done")

\* C16: when a query has returned or raised nothing it opened is still
\* open, and nothing is open when an invocation is entered for the next
\* rotation index.  (Stated as claimed; the code violates it.)
C16_NothingLeftOpen ==
    \A p \in Callers :
        walk[p].pc \in {"done", "raised", "enter"} => walk[p].open = {}

\* the log set with rotation index i stored the other way: the plain file
\* compressed, or the compressed file plain
OtherVariant(files, i) ==
    IF IsFile(files, Plain(i))
    THEN [files EXCEPT ![Plain(i)] = None, ![Gz(i)] = Some(Gzip(files[Plain(i)][1]))]
    ELSE [files EXCEPT ![Gz(i)] = None, ![Plain(i)] = Some(Gunzip(files[Gz(i)][1]))]

\* C17: storing one rotation index the other way (plain instead of
\* compressed or compressed instead of plain, same content) changes the
\* result of no query.
C17_CompressedVariantSame ==
    Done => \A i \in 1..(MaxIndex + 2) :
                Exists(fs, i) =>
                    result = ParseRotatedLog(OtherVariant(fs, i), None, q.limit, q).entries

\* a plain logfile.1 and a compressed logfile.2.gz, both with entries in
\* the result
C17_Witness ==
    /\ Done /\ q.limit = None
    /\ IsFile(fs, Plain(1)) /\ IsFile(fs, Gz(2))
    /\ Len(LinesAt(fs, 1)) >= 1 /\ Len(LinesAt(fs, 2)) >= 1
    /\ Len(result) >= Len(LinesAt(fs, 1)) + Len(LinesAt(fs, 2))
    /\ result = ParseRotatedLog(OtherVariant(fs, 1), None, q.limit, q).entries
    /\ result = ParseRotatedLog(OtherVariant(fs, 2), None, q.limit, q).entries

\* C18: whatever the interleaving with another caller's query, a query
\* returns what ParseRotatedLog returns for its arguments alone, after the
\* invocations it makes alone.
C18_ConcurrentAsAlone ==
    \A p \in Callers :
        walk[p].pc = "done" =>
            /\ walk[p].result = ParseRotatedLog(fs, None, walk[p].q.limit, walk[p].q).entries
            /\ walk[p].trace = ParseRotatedLog(fs, None, walk[p].q.limit, walk[p].q).calls

\* both callers are inside their queries, with different limits, each
\* with entries collected
C18_Witness ==
    /\ walk["a"].stack # <<>> /\ walk["b"].stack # <<>>
    /\ walk["a"].q.limit # walk["b"].q.limit
    /\ \E k \in 1..Len(walk["a"].trace) : Len(walk["a"].trace[k].entries) >= 1
    /\ \E k \in 1..Len(walk["b"].trace) : Len(walk["b"].trace[k].entries) >= 1

\* C19: the invocations of a query go through the rotation indices from 0
\* upwards (backward) or from maxrotate downwards (forward) one by one, so
\* none comes twice; every index at which a file is looked for lies in
\* [0, maxrotate]; and while a file is being read every earlier invocation
\* has finished with its own file and no other file is being read.
C19_WalkOrder ==
    \A p \in Callers :
        LET w == walk[p] IN
        /\ w.trace # <<>> =>
               w.trace[1].rotate = (IF w.q.forward THEN w.q.maxrotate ELSE 0)
        /\ \A k \in 1..(Len(w.trace) - 1) :
               w.trace[k + 1].rotate =
                   (IF w.q.forward THEN w.trace[k].rotate - 1 ELSE w.trace[k].rotate + 1)
        /\ \A k \in 1..Len(w.trace) :
               w.trace[k].step # "range" =>
                   (0 <= w.trace[k].rotate /\ w.trace[k].rotate <= w.q.maxrotate)
        /\ \A j \in 1..(Len(w.stack) - 1) :
               /\ w.stack[j].step \in {"missing", "collected"}
               /\ w.trace[j].rotate = w.stack[j].rotate
               /\ w.trace[j].step = w.stack[j].step
               /\ w.stack[j + 1].rotate =
                      (IF w.q.forward THEN w.stack[j].rotate - 1 ELSE w.stack[j].rotate + 1)

\* a forward query reading its second file after a missing index
C19_Witness ==
    /\ walk["a"].pc = "piped" /\ walk["a"].q.forward
    /\ Len(walk["a"].stack) >= 3
    /\ \E j \in 1..2 : walk["a"].stack[j].step = "collected"
    /\ \E j \in 1..2 : walk["a"].stack[j].step = "missing"

\* the invocations a query has made so far
CallsMade(w) == Len(w.trace) + (IF w.pc \in {"enter", "piped"} THEN 1 ELSE 0)

Max(a, b) == IF a >= b THEN a ELSE b

\* the rotation index moves by exactly one per invocation, in the
\* direction of the query, and an invocation with an index below 0 or
\* above maxrotate returns the empty list
StepsByOne(w) ==
    /\ \A k \in 1..(Len(w.trace) - 1) :
           w.trace[k + 1].rotate =
               (IF w.q.forward THEN w.trace[k].rotate - 1 ELSE w.trace[k].rotate + 1)
    /\ \A j \in 1..Len(w.stack) :
           (w.stack[j].step # "called"
              /\ (w.stack[j].rotate < 0 \/ w.stack[j].rotate > w.q.maxrotate)) =>
               (w.stack[j].step = "range" /\ w.stack[j].value = <<>>)

Called(p) == walk[p].pc \in {"enter", "piped", "ret"}
Ended(p) == walk[p].pc \in {"done", "raised"}

\* C20 as claimed: every query ends, the index moving by one per
\* invocation and an invocation out of range returning the empty list,
\* after at most maxrotate + 2 invocations.
C20_EndsWithinMaxrotatePlusTwo ==
    /\ [](StepsByOne(walk["a"])
           /\ CallsMade(walk["a"]) <= walk["a"].q.maxrotate + 2)
    /\ (Called("a") ~> Ended("a"))

\* C20 as amended: the same, after at most maxrotate + 2 invocations and,
\* when maxrotate is below -1, after the one invocation the call itself is.
C20_EndsWithinBound ==
    /\ [](StepsByOne(walk["a"])
           /\ CallsMade(walk["a"]) <= Max(1, walk["a"].q.maxrotate + 2))
    /\ (Called("a") ~> Ended("a"))

\* a forward query over a log set with every file missing that has made
\* all its maxrotate + 2 invocations and returned
C20_Witness ==
    /\ walk["a"].pc = "done" /\ walk["a"].q.forward
    /\ walk["a"].q.maxrotate = MaxIndex + 2
    /\ \A i \in AllIndices : ~Exists(fs, i)
    /\ Len(walk["a"].trace) = walk["a"].q.maxrotate + 2
    /\ walk["a"].result = <<>>

\* the entries accepted by the first k invocations of the query
Accepted(cs, k) == Len(Flatten(SubSeq(cs, 1, k)))

\* C21 as claimed: once the number of accepted entries has reached the
\* limit no further rotation index is probed or opened: an invocation is
\* followed by another only while fewer entries than the limit have been
\* accepted.
C21_NoProbeOnceLimitReached ==
    (Done /\ q.limit # None) =>
        \A k \in 1..(Len(calls) - 1) : Accepted(calls, k) < q.limit[1]

\* C21 as amended: once a file has been read and the accepted entries have
\* reached the limit, no further index is probed and no further file is
\* read, in either direction; only with limit 0 and before any file has
\* been read does the walk pass over missing indices, and then the first
\* file it reads is the last.
C21_NoProbeAfterLimitingFile ==
    (Done /\ q.limit # None) =>
        /\ \A k \in 1..(Len(calls) - 1) :
              \/ Accepted(calls, k) < q.limit[1]
              \/ /\ q.limit[1] = 0
                 /\ \A m \in 1..k : calls[m].step = "missing"
        /\ \A k \in 1..Len(calls) :
              (calls[k].step = "collected" /\ Accepted(calls, k) >= q.limit[1]) =>
                  /\ k = Len(calls)
                  /\ \A i \in AllIndices :
                        (IF q.forward THEN i < calls[k].rotate ELSE i > calls[k].rotate) =>
                            \A m \in 1..Len(calls) : calls[m].rotate # i

\* the limit is reached in the first file the query reads, and a file
\* with lines lies beyond it
C21_Witness ==
    /\ Done /\ q.limit = Some(MaxLimit)
    /\ Len(calls) = 1 /\ calls[1].step = "collected"
    /\ Len(result) = MaxLimit
    /\ Len(LinesAt(fs, NextRotate(calls[1].rotate, q))) >= 1

\* the invocation of the query for rotation index i, 0 when there is none
CallFor(cs, i) ==
    IF \E k \in 1..Len(cs) : cs[k].rotate = i
    THEN CHOOSE k \in 1..Len(cs) : cs[k].rotate = i
    ELSE 0

\* the limit was reached in a file read before rotation index i was due
LimitReachedBefore(cs, i, qq) ==
    /\ qq.limit # None
    /\ \E k \in 1..Len(cs) :
          /\ cs[k].step = "collected"
          /\ IF qq.forward THEN cs[k].rotate > i ELSE cs[k].rotate < i
          /\ Accepted(cs, k) >= qq.limit[1]

\* C22: in a forward query a missing file only moves the walk to the next
\* lower index: every existing file with index in [0, maxrotate] is read
\* unless the limit was reached in an older file, its entries are those of
\* its matching lines (the earliest of them under a limit), and the result
\* holds the entries of all files read, also across missing indices.
C22_ForwardPassesGaps ==
    (Done /\ q.forward) =>
        /\ \A i \in 0..q.maxrotate :
              Exists(fs, i) =>
                 \/ LimitReachedBefore(calls, i, q)
                 \/ /\ CallFor(calls, i) # 0
                    /\ calls[CallFor(calls, i)].step = "collected"
                    /\ calls[CallFor(calls, i)].entries =
                          Reverse(EntriesOf(
                              IF calls[CallFor(calls, i)].limit = None
                              THEN Matching(fs, i, q)
                              ELSE Earliest(Matching(fs, i, q),
                                            calls[CallFor(calls, i)].limit[1])))
        /\ \A k \in 1..Len(calls) :
              (calls[k].step = "missing" /\ ~LimitReachedBefore(calls, calls[k].rotate, q)) =>
                  (k < Len(calls) /\ calls[k + 1].rotate = calls[k].rotate - 1)
        /\ result = Flatten(Reverse(calls))

\* logfile.3.gz and logfile.1 hold lines, logfile.2 is missing: the forward
\* query without limit returns the entries of both
C22_Witness ==
    /\ Done /\ q.forward /\ q.limit = None /\ q.maxrotate = DefaultMaxRotate
    /\ Len(LinesAt(fs, 3)) >= 1 /\ ~Exists(fs, 2) /\ Len(LinesAt(fs, 1)) >= 1
    /\ CallFor(calls, 3) # 0 /\ CallFor(calls, 1) # 0
    /\ Len(calls[CallFor(calls, 3)].entries) >= 1
    /\ Len(calls[CallFor(calls, 1)].entries) >= 1
    /\ Len(result) >= 2

\* C23: in a backward query a missing live file does not end the walk: the
\* invocation for index 0 is followed by one for index 1, the result is what
\* the invocations from index 1 on collect (from logfile.1 the entries of
\* its matching lines, the most recent of them under a limit), and a
\* missing index ends the walk only when it is above 0.
C23_MissingLiveFilePassed ==
    (Done /\ ~q.forward /\ ~Exists(fs, 0)) =>
        /\ calls[1].rotate = 0 /\ calls[1].step = "missing"
        /\ Len(calls) >= 2 /\ calls[2].rotate = 1
        /\ result = Flatten(Tail(calls))
        /\ Exists(fs, 1) =>
              /\ calls[2].step = "collected"
              /\ calls[2].limit = q.limit
              /\ calls[2].entries =
                    Reverse(EntriesOf(IF q.limit = None
                                      THEN Matching(fs, 1, q)
                                      ELSE MostRecent(Matching(fs, 1, q), q.limit[1])))
        /\ \A k \in 2..Len(calls) : calls[k].step = "missing" => k = Len(calls)

\* logfile missing, logfile.1 and logfile.2.gz with lines: the backward
\* query without limit returns the entries of both
C23_Witness ==
    /\ Done /\ ~q.forward /\ q.limit = None
    /\ ~Exists(fs, 0)
    /\ Len(LinesAt(fs, 1)) >= 1 /\ Len(LinesAt(fs, 2)) >= 1
    /\ result = Reverse(EntriesOf(LinesAt(fs, 1))) \o Reverse(EntriesOf(LinesAt(fs, 2)))
    /\ Len(result) >= 2

\* the lines whose token satisfies the window of the query
InRange(lines, qq) ==
    SelectSeq(lines, LAMBDA l : WithinCursor(l.tok, qq) /\ WithinEndCursor(l.tok, qq))

\* C24: when a cursor is given, the well-formed lines of a file that yield
\* entries are exactly those whose token satisfies the cursor bound and,
\* when endcursor is given, the endcursor bound, each inclusive or strict
\* by its flag and turned round by the direction.
C24_RangeFilter ==
    (Done /\ q.cursor # None /\ q.limit = None) =>
        \A k \in 1..Len(Collected) :
            Collected[k].entries =
                Reverse(EntriesOf(InRange(LinesAt(fs, Collected[k].rotate), q)))

\* both bounds given, the cursor exclusive: of two well-formed lines of one
\* file the one carrying the cursor's token is filtered out, the other kept
C24_Witness ==
    /\ Done /\ q.cursor # None /\ q.endcursor # None /\ q.limit = None
    /\ ~q.includecursor /\ q.includeendcursor
    /\ \E k \in 1..Len(Collected) :
          /\ Len(EntriesOf(LinesAt(fs, Collected[k].rotate))) = 2
          /\ \E j \in 1..2 : LinesAt(fs, Collected[k].rotate)[j].tok = q.cursor[1]
          /\ Len(Collected[k].entries) = 1
          /\ Cursor(Collected[k].entries[1]) = q.endcursor[1]

\* a line's text matches a pattern filter: it holds the filter's pattern
\* (whatever the case of the letters under -i), or does not under -v
MatchesFilter(text, args) ==
    LET pattern == args[Len(args)] IN
    (IF \E k \in 1..(Len(args) - 1) : args[k] = <<"-", "i">>
     THEN Contains(LowerText(text), LowerText(pattern))
     ELSE Contains(text, pattern))
    # (\E k \in 1..(Len(args) - 1) : args[k] = <<"-", "v">>)

\* a line's text holds the keyword, whatever the case of the letters
HoldsKeyword(text, keyword) == Contains(LowerText(text), LowerText(keyword))

\* the lines that match every pattern filter and hold the keyword
PassingPatterns(lines, qq) ==
    SelectSeq(lines, LAMBDA l :
        /\ \A k \in 1..Len(qq.greps) : MatchesFilter(l.text, qq.greps[k])
        /\ qq.keyword # None => HoldsKeyword(l.text, qq.keyword[1]))

\* the same filters listed in another order
Reordered(greps) ==
    {g \in ListsOf(GrepArgs) :
        Len(g) = Len(greps) /\ {g[k] : k \in 1..Len(g)} = {greps[k] : k \in 1..Len(greps)}}

\* C25: the lines of a file that yield entries are those that match every
\* pattern filter and, when a keyword is given, hold the keyword in any
\* case, in the order they have in the file; listing the pattern filters
\* in another order gives the same result.  (Stated as claimed; the code
\* violates it.)
C25_PatternStage ==
    Done =>
        /\ \A k \in 1..Len(Collected) :
              Collected[k].entries =
                  Reverse(EntriesOf(PassingPatterns(LinesAt(fs, Collected[k].rotate), q)))
        /\ \A g \in Reordered(q.greps) :
              result = ParseRotatedLog(fs, None, q.limit, [q EXCEPT !.greps = g]).entries

\* the lines of a file that the range, pattern and keyword stages let pass
Filtered(lines, qq) == KeywordGrep(GrepChain(Awk(lines, qq), qq.greps), qq.keyword)

\* C26: the truncation comes after the range, pattern and keyword filters:
\* an invocation with limit N takes the entries of the N most recent
\* (backward) or N earliest (forward) of the lines of its file that passed
\* all filters, and the limit it hands on is N less the entries it took,
\* so that a rejected line never counts.
C26_TruncationAfterFilters ==
    Done =>
        /\ \A k \in 1..Len(Collected) :
              LET c == Collected[k]
                  passed == Filtered(LinesAt(fs, c.rotate), q)
              IN c.entries = Reverse(EntriesOf(IF q.forward
                                               THEN Earliest(passed, c.limit[1])
                                               ELSE MostRecent(passed, c.limit[1])))
        /\ \A k \in 1..Len(calls) :
              calls[k].limit = Some(q.limit[1] - Accepted(calls, k - 1))

\* a backward invocation with limit 1 over a file of two lines whose later
\* line a filter rejects: the entry of the earlier line is taken
C26_Witness ==
    /\ Done /\ ~q.forward
    /\ \E k \in 1..Len(Collected) :
          LET ls == LinesAt(fs, Collected[k].rotate) IN
          /\ Collected[k].limit = Some(1)
          /\ Len(ls) = 2
          /\ Filtered(ls, q) = <<ls[1]>>
          /\ Collected[k].entries = <<<<ls[1].tok, "payload">>>>

\* the file the claim has read for rotation index i
PlainElseGz(files, i) ==
    IF i = 0 THEN Plain(0)
    ELSE IF IsFile(files, Plain(i)) THEN Plain(i) ELSE Gz(i)

\* an invocation found and read the file the claim names for its index,
\* or found neither variant
Located(files, c) ==
    /\ c.step = "missing" <=>
          IF c.rotate = 0 THEN ~IsFile(files, Plain(0))
          ELSE ~IsFile(files, Plain(c.rotate)) /\ ~IsFile(files, Gz(c.rotate))
    /\ c.step = "collected" =>
          c.entries = Reverse(EntriesOf(ReadFile(files, PlainElseGz(files, c.rotate))))

\* C27: for an index above 0 the file read is logfile.N when it exists and
\* logfile.N.gz only when it does not, for index 0 it is logfile; an index
\* is missing only when neither variant exists (for index 0, when logfile
\* does not); and a query leaves every file as it was.
C27_PlainBeforeCompressed ==
    [][/\ fs' = fs
       /\ pc' = "done" =>
             \A k \in 1..Len(calls') :
                 calls'[k].step # "range" => Located(fs', calls'[k])]_vars

\* logfile.1 and logfile.1.gz both exist and differ: the entries of the
\* plain one are returned, and both are as they were
C27_Witness ==
    /\ Done /\ q.limit = None
    /\ IsFile(fs, Plain(1)) /\ IsFile(fs, Gz(1))
    /\ Len(ReadFile(fs, Plain(1))) = 1 /\ Len(ReadFile(fs, Gz(1))) = 2
    /\ CallFor(calls, 1) # 0
    /\ calls[CallFor(calls, 1)].entries = EntriesOf(ReadFile(fs, Plain(1)))

\* C28: when the log set is rotated between two invocations of a backward
\* query, the query returns no line twice.  (Stated as claimed; the code
\* violates it.)
C28_RotationGivesNoDuplicate ==
    (walk["a"].pc = "done" /\ ~walk["a"].q.forward) =>
        \A i, j \in 1..Len(walk["a"].result) :
            i # j => walk["a"].result[i] # walk["a"].result[j]

\* the handshake's history holds event e before position k
Before(k, what, who, command, value) ==
    {j \in 1..(k - 1) : sync.log[j] = Event(what, who, command, value)}

\* C29: when a client's Start call returns True, the server it addressed
\* wrote True to its run flag and sent its reply after that; a server with
\* a downstream client writes True only after that client's Start call
\* returned True; and a run flag is True only in a server that received a
\* Start request.
C29_StartedBeforeAcknowledged ==
    /\ \A k \in 1..Len(sync.log) :
          /\ (sync.log[k].what = "returned" /\ sync.log[k].command = "Start"
                /\ sync.log[k].value) =>
                 \E j \in Before(k, "set", endpoint(sync.log[k].who), "Start", TRUE) :
                     \E r \in Before(k, "replied", endpoint(sync.log[k].who), "Start", TRUE) :
                         j < r
          /\ (sync.log[k] = Event("set", sync.log[k].who, "Start", TRUE)
                /\ syncControllerClient(sync.log[k].who) # None) =>
                 Before(k, "returned", sync.log[k].who, "Start", TRUE) # {}
    /\ \A s \in Servers :
          sync.shouldRun[s] => Before(Len(sync.log) + 1, "received", s, "Start", TRUE) # {}

\* the PLC script's Start call returned True and both servers' flags are set
C29_Witness ==
    /\ sync.main = "cycles"
    /\ sync.call["plc"].returned
    /\ sync.shouldRun["motion"] /\ sync.shouldRun["vision"]

\* nothing is on its way and no process is inside a call or a request
Settled ==
    /\ \A s \in Servers : sync.requests[s] = <<>> /\ sync.thread[s].pc = "poll"
    /\ \A c \in Clients : sync.call[c].pc # "poll"

\* C30: when the PLC script's Start call returned False, so that it sends
\* no Stop, no server is left with its run flag True.  (Stated as claimed;
\* the code violates it.)
C30_FailedStartLeavesNoFlag ==
    (sync.main = "failed" /\ Settled) => \A s \in Servers : ~sync.shouldRun[s]

\* C35: for a query started with limit N >= 0 the limit passed to each
\* recursive call is N minus the number of entries accepted so far and is
\* never negative; after a file was collected a recursive call is made only
\* with a limit greater than 0; a call that found its file missing passes
\* its own limit on unchanged.
C35_LimitPassedOn ==
    (Done /\ q.limit # None) =>
        /\ calls[1].limit = q.limit
        /\ \A k \in 2..Len(calls) :
              /\ calls[k].limit # None
              /\ calls[k].limit[1] = q.limit[1] - Accepted(calls, k - 1)
              /\ calls[k].limit[1] >= 0
              /\ calls[k - 1].step = "collected" => calls[k].limit[1] > 0
              /\ calls[k - 1].step = "missing" => calls[k].limit = calls[k - 1].limit

\* a forward query with limit 2 that passed missing indices, took one
\* entry from a file holding also a line that yields none, and went on to
\* the next file with limit 1
C35_Witness ==
    /\ Done /\ q.forward /\ q.limit = Some(2)
    /\ \E k \in 2..(Len(calls) - 1) :
          /\ calls[k - 1].step = "missing"
          /\ calls[k].step = "collected" /\ Len(calls[k].entries) = 1
          /\ Dropped(LinesAt(fs, calls[k].rotate)) = 1
          /\ calls[k + 1].limit = Some(1)
          /\ calls[k + 1].step = "collected"

\* the events of the history so far that say what, for process who
Events(what, who) ==
    {k \in 1..Len(sync.log) : sync.log[k].what = what /\ sync.log[k].who = who}

\* C31: the server's lock is released on every path through the Start and
\* Stop handlers, also when the downstream Start call times out or raises
\* while the lock is held: the server thread holds the lock only while it
\* is inside the Start handler waiting for the downstream call, so that a
\* ShouldRun of the main thread never waits forever.  (Stated as claimed;
\* the code violates it.)
C31_LockReleasedOnEveryPath ==
    \A s \in Servers : sync.lock[s] = "thread" => sync.thread[s].pc = "request"

\* the events after the k-th of the history
After(k, what, who, command, value) ==
    {j \in (k + 1)..Len(sync.log) : sync.log[j] = Event(what, who, command, value)}

\* the server thread of s is inside a handler
Handling(s) == sync.thread[s].pc \in {"request", "reply"}

\* C32: a Stop request always sets the server's run flag to False and is
\* always answered with an echo of the request, whatever became of the
\* Stop forwarded downstream; after it the flag stays False until a later
\* Start request is processed.  (Stated as claimed; the code violates it.)
C32_StopClearsAndEchoes ==
    \A s \in Servers :
        \A k \in Events("received", s) :
            sync.log[k].command = "Stop" =>
                /\ After(k, "set", s, "Stop", FALSE) # {}
                /\ (~Handling(s) \/ After(k, "received", s, "Start", TRUE) # {})
                       => After(k, "replied", s, "Stop", TRUE) # {}
                /\ sync.shouldRun[s] =>
                       \E j \in After(k, "received", s, "Start", TRUE) :
                           After(j, "set", s, "Start", TRUE) # {}

\* C33: SyncTestWithControllerServer.Stop always terminates, the thread
\* having left its loop after at most one poll cycle plus the handling of
\* a request in flight and closed its socket, and every request the thread
\* received has been answered with exactly one reply: once Stop has
\* joined the thread, the thread has closed its socket, it received at
\* most one request after _isOk was set False, and it sent as many replies
\* as it received requests.  (Stated as claimed; the code violates it.)
C33_StoppedClosedAndAnswered ==
    \A s \in Servers :
        sync.proc[s] = "stopped" =>
            /\ sync.thread[s].pc = "closed"
            /\ \A k \in Events("stop", s) :
                  Cardinality({j \in Events("received", s) : j > k}) <= 1
            /\ Cardinality(Events("received", s)) = Cardinality(Events("replied", s))

\* the PLC script's Stop request has been sent
StopSent == sync.call["plc"].command = "Stop"

\* C34: in plcOrderCycles the order cycle is requested (startOrderCycle
\* set True) only after the motion controller's server acknowledged Start;
\* startOrderCycle is cleared only after isRunningOrderCycle was observed
\* True; Stop is sent only after isRunningOrderCycle was then observed
\* False; when Start fails no order is started and no Stop is sent; and
\* the PLC server is stopped at the end of both branches.
C34_OrderCycleSequenced ==
    /\ \A k \in 1..Len(sync.log) :
          /\ sync.log[k] = Event("set", "plc", "startOrderCycle", TRUE) =>
                \E r \in Before(k, "returned", "plc", "Start", TRUE) :
                    Before(r, "replied", "motion", "Start", TRUE) # {}
          /\ sync.log[k] = Event("set", "plc", "startOrderCycle", FALSE) =>
                Before(k, "observed", "plc", "isRunningOrderCycle", TRUE) # {}
    /\ StopSent =>
          \E k \in Events("observed", "plc") :
              /\ sync.log[k] = Event("observed", "plc", "isRunningOrderCycle", FALSE)
              /\ \E j \in Before(k, "observed", "plc", "isRunningOrderCycle", TRUE) :
                    Before(k, "set", "plc", "startOrderCycle", FALSE) \cap (j + 1)..k # {}
    /\ (\E k \in Events("returned", "plc") :
            sync.log[k] = Event("returned", "plc", "Start", FALSE)) =>
          /\ Events("set", "plc") = {}
          /\ ~sync.order.startOrderCycle
          /\ ~StopSent
    /\ sync.main = "exit" <=> sync.server = "stopped"
    /\ sync.main = "exit" =>
          /\ Events("returned", "plc") # {}
          /\ \A k \in Events("returned", "plc") :
                After(k, "stopped", "plc", "server", TRUE) # {}

\* the script has run its order cycle after an acknowledged Start, sent
\* Stop and stopped its PLC server
C34_Witness ==
    /\ sync.main = "exit" /\ sync.server = "stopped"
    /\ \E k \in Events("returned", "plc") :
          /\ sync.log[k] = Event("returned", "plc", "Stop", TRUE)
          /\ Before(k, "observed", "plc", "isRunningOrderCycle", FALSE) # {}
    /\ ~sync.order.startOrderCycle
====
